---- MODULE Spec2Model ----
(***************************************************************************)
(* Model of the test_dir crate (src/src/lib.rs): TempDir, the scoped       *)
(* directory with its deletion path, and TestDir, the builder that creates *)
(* and removes entries under the directory.  The file system is part of    *)
(* the state; the std::fs and std::path calls the crate makes are modelled *)
(* by what they do on it (POSIX path resolution, mkdir -p, recursive       *)
(* delete, create/truncate, buffered write).                               *)
(***************************************************************************)
EXTENDS Integers, Sequences, FiniteSets, TLC

\* ------------------------------------------------------------------ bounds

\* Calls made on one fixture after its construction.
MaxOps == 2

\* Largest size given to ZeroFile / RandomFile.
MaxSize == 3

\* Capacity of the BufWriter around the created file (8 KiB in std, scaled
\* down so that sizes below, at and above the capacity all occur).
BufCap == 2

\* -------------------------------------------------------------- path values

\* A path is its components; ".." is kept as a component, as std::path does.
\* Names are what random_name() draws: two draws may be equal, but no draw is
\* the name of an entry that was there before the run.
Names == {"r", "s"}

MkPath(abs, segs) == [abs |-> abs, segs |-> segs]

Abs(segs) == MkPath(TRUE, segs)

Rel(segs) == MkPath(FALSE, segs)

\* std::env::temp_dir() and std::env::current_dir()
TempDirPath == Abs(<<"tmp">>)

CwdPath == Abs(<<"cwd">>)

Front(s) == SubSeq(s, 1, Len(s) - 1)

IsPrefix(p, q) == Len(p) <= Len(q) /\ SubSeq(q, 1, Len(p)) = p

\* Path::is_absolute
is_absolute(p) == p.abs

\* Path::parent is None for "/" and for "", else the path without its last
\* component ("a" has the parent "").
HasParent(p) == p.segs # <<>>

Parent(p) == MkPath(p.abs, Front(p.segs))

\* PathBuf::push: an absolute argument replaces the path.
Push(base, p) == IF p.abs THEN p ELSE MkPath(base.abs, base.segs \o p.segs)

\* Path::starts_with compares components.
starts_with(p, base) == p.abs = base.abs /\ IsPrefix(base.segs, p.segs)

\* -------------------------------------------------------------- file system

\* The tree: a function from the canonical path of every existing entry
\* (a sequence of names from "/") to the entry.
DirEntry == [kind |-> "dir", data |-> <<>>]

FileEntry(d) == [kind |-> "file", data |-> d]

Put(t, c, e) == [x \in (DOMAIN t) \cup {c} |-> IF x = c THEN e ELSE t[x]]

Without(t, gone) == [x \in (DOMAIN t) \ gone |-> t[x]]

Under(t, c) == {x \in DOMAIN t : IsPrefix(c, x)}

\* The outcome of a call: a read-only file system refuses every change, at
\* most `quota` bytes can still be written, and with `keep` a recursive
\* delete empties the directory but fails to remove the directory itself.
Envs ==
    {[ro |-> TRUE, quota |-> MaxSize, keep |-> FALSE]}
    \cup {[ro |-> FALSE, quota |-> k, keep |-> FALSE] : k \in 0..MaxSize}

EnvOk == [ro |-> FALSE, quota |-> MaxSize, keep |-> FALSE]

EnvRo == [ro |-> TRUE, quota |-> MaxSize, keep |-> FALSE]

EnvKeep == [ro |-> FALSE, quota |-> MaxSize, keep |-> TRUE]

\* Path resolution as the kernel does it: every component but the last is
\* looked up in an existing directory, ".." steps to the parent.
RECURSIVE Walk(_, _, _)
Walk(t, cur, segs) ==
    IF segs = <<>> THEN [st |-> "ok", path |-> cur]
    ELSE IF cur \notin DOMAIN t THEN [st |-> "enoent", path |-> cur]
    ELSE IF t[cur].kind # "dir" THEN [st |-> "enotdir", path |-> cur]
    ELSE IF Head(segs) = ".."
         THEN Walk(t, IF cur = <<>> THEN cur ELSE Front(cur), Tail(segs))
         ELSE Walk(t, Append(cur, Head(segs)), Tail(segs))

Resolve(t, p) == Walk(t, IF p.abs THEN <<>> ELSE CwdPath.segs, p.segs)

\* Path::exists, Path::is_dir, Path::is_file
exists(t, p) ==
    LET r == Resolve(t, p) IN r.st = "ok" /\ r.path \in DOMAIN t

is_dir(t, p) ==
    LET r == Resolve(t, p) IN r.st = "ok" /\ r.path \in DOMAIN t /\ t[r.path].kind = "dir"

is_file(t, p) ==
    LET r == Resolve(t, p) IN r.st = "ok" /\ r.path \in DOMAIN t /\ t[r.path].kind = "file"

\* mkdir(2)
MkDir(t, p, env) ==
    LET r == Resolve(t, p) IN
    IF r.st # "ok" THEN [err |-> r.st, fs |-> t]
    ELSE IF r.path \in DOMAIN t THEN [err |-> "eexist", fs |-> t]
    ELSE IF env.ro THEN [err |-> "eacces", fs |-> t]
    ELSE [err |-> "ok", fs |-> Put(t, r.path, DirEntry)]

\* fs::create_dir_all: mkdir; on NotFound create the parent first and retry;
\* any other error is a success when the path is a directory.
RECURSIVE create_dir_all(_, _, _)
create_dir_all(t, p, env) ==
    LET m == MkDir(t, p, env) IN
    IF p = Rel(<<>>) THEN [ok |-> TRUE, fs |-> t]
    ELSE IF m.err = "ok" THEN [ok |-> TRUE, fs |-> m.fs]
    ELSE IF m.err # "enoent" THEN [ok |-> is_dir(t, p), fs |-> t]
    ELSE IF ~HasParent(p) THEN [ok |-> FALSE, fs |-> t]
    ELSE LET up == create_dir_all(t, Parent(p), env) IN
         IF ~up.ok THEN up
         ELSE LET m2 == MkDir(up.fs, p, env) IN
              IF m2.err = "ok" THEN [ok |-> TRUE, fs |-> m2.fs]
              ELSE [ok |-> is_dir(up.fs, p), fs |-> up.fs]

\* fs::remove_dir_all: everything at or under the directory goes; "/" itself
\* cannot be removed, and the call may fail part-way, after the entries under
\* the directory are gone.
remove_dir_all(t, p, env) ==
    LET r == Resolve(t, p) IN
    IF r.st # "ok" \/ r.path \notin DOMAIN t THEN [ok |-> FALSE, fs |-> t]
    ELSE IF t[r.path].kind # "dir" \/ env.ro THEN [ok |-> FALSE, fs |-> t]
    ELSE IF r.path = <<>> \/ env.keep
         THEN [ok |-> FALSE, fs |-> Without(t, Under(t, r.path) \ {r.path})]
    ELSE [ok |-> TRUE, fs |-> Without(t, Under(t, r.path))]

\* fs::remove_file: unlink(2)
fs_remove_file(t, p, env) ==
    LET r == Resolve(t, p) IN
    IF r.st # "ok" \/ r.path \notin DOMAIN t THEN [ok |-> FALSE, fs |-> t]
    ELSE IF t[r.path].kind # "file" \/ env.ro THEN [ok |-> FALSE, fs |-> t]
    ELSE [ok |-> TRUE, fs |-> Without(t, {r.path})]

\* fs::File::create: open with create and truncate.
File_create(t, p, env) ==
    LET r == Resolve(t, p) IN
    IF r.st # "ok" THEN [ok |-> FALSE, fs |-> t, at |-> <<>>]
    ELSE IF r.path \in DOMAIN t /\ t[r.path].kind = "dir" THEN [ok |-> FALSE, fs |-> t, at |-> <<>>]
    ELSE IF env.ro THEN [ok |-> FALSE, fs |-> t, at |-> <<>>]
    ELSE [ok |-> TRUE, fs |-> Put(t, r.path, FileEntry(<<>>)), at |-> r.path]

\* -------------------------------------------------------------- BufWriter

\* The byte b"0" written by ZeroFile.
ZeroByte == 48

\* Values rng.gen() draws a byte from.
Bytes == {ZeroByte, 255}

Min(a, b) == IF a < b THEN a ELSE b

\* A BufWriter over the file: buf is what it holds, out is what reached the
\* file so far.
NewBufWriter == [ok |-> TRUE, buf |-> <<>>, out |-> <<>>]

\* BufWriter::flush_buf: write the buffer out; the bytes the file system
\* does not take stay in the buffer and the call is an error.
flush_buf(w, env) ==
    LET room == env.quota - Len(w.out)
        n    == Len(w.buf)
    IN IF n <= room
       THEN [ok |-> TRUE, buf |-> <<>>, out |-> w.out \o w.buf]
       ELSE [ok |-> FALSE, buf |-> SubSeq(w.buf, room + 1, n),
             out |-> w.out \o SubSeq(w.buf, 1, room)]

\* BufWriter::write: flush when the bytes do not fit; bytes as long as the
\* capacity go to the file in one write(2), which may take only a part of
\* them; shorter ones are kept in the buffer.
BufWriter_write(w, b, env) ==
    LET w1   == IF Len(w.buf) + Len(b) > BufCap THEN flush_buf(w, env) ELSE w
        room == env.quota - Len(w1.out)
    IN IF ~w1.ok THEN w1
       ELSE IF Len(b) >= BufCap
            THEN IF room = 0
                 THEN [ok |-> FALSE, buf |-> w1.buf, out |-> w1.out]
                 ELSE [ok |-> TRUE, buf |-> w1.buf,
                       out |-> w1.out \o SubSeq(b, 1, Min(Len(b), room))]
            ELSE [ok |-> TRUE, buf |-> w1.buf \o b, out |-> w1.out]

\* for _ in 0..size { buffer.write(b"0")?; }
RECURSIVE WriteZeros(_, _, _)
WriteZeros(w, size, env) ==
    IF size = 0 THEN w
    ELSE LET w1 == BufWriter_write(w, <<ZeroByte>>, env) IN
         IF ~w1.ok THEN w1 ELSE WriteZeros(w1, size - 1, env)

\* Drop of the BufWriter: the buffer is flushed and the result is ignored.
BufWriter_drop(w, env) == flush_buf(w, env).out

\* ------------------------------------------------------------------ FileType

FileTypes ==
    {[tag |-> "Dir", size |-> 0], [tag |-> "EmptyFile", size |-> 0]}
    \cup {[tag |-> k, size |-> n] : k \in {"ZeroFile", "RandomFile"}, n \in 0..MaxSize}

FDir == [tag |-> "Dir", size |-> 0]

\* The bytes RandomFile(size) may draw.
RECURSIVE ByteSeqs(_)
ByteSeqs(n) ==
    IF n = 0 THEN {<<>>}
    ELSE {Append(s, b) : s \in ByteSeqs(n - 1), b \in Bytes}

Draws(ft) == IF ft.tag = "RandomFile" THEN ByteSeqs(ft.size) ELSE {<<>>}

\* ------------------------------------------------------------------- TempDir

NoPath == Rel(<<>>)

NoTempDir == [path |-> NoPath, delete |-> NoPath]

\* Boundary without its loop: the deletion path is always the target.
Boundary_NoWalk(t, p) == p

\* The loop of TempDir::create: go up while the parent does not exist.
RECURSIVE Boundary(_, _)
Boundary(t, p) ==
    IF HasParent(p) /\ ~exists(t, Parent(p)) THEN Boundary(t, Parent(p)) ELSE p

\* TempDir::create with the result of create_dir_all discarded.
TempDir_create_Unchecked(t, path, env) ==
    LET p == Boundary(t, path)
        r == create_dir_all(t, path, env)
    IN [ok |-> TRUE, fs |-> r.fs, tempdir |-> [path |-> path, delete |-> p]]

\* TempDir::create
TempDir_create(t, path, env) ==
    LET p == Boundary(t, path)
        r == create_dir_all(t, path, env)
    IN [ok |-> r.ok, fs |-> r.fs, tempdir |-> [path |-> path, delete |-> p]]

\* ------------------------------------------------------------------- TestDir

NoTestDir == [root |-> NoPath, files |-> <<>>, dirs |-> <<>>]

\* TestDir::new
TestDir_new(tempdir) == [root |-> tempdir.path, files |-> <<>>, dirs |-> <<>>]

\* TestDir::create_dir calling fs::create_dir (one mkdir) in place of
\* fs::create_dir_all.
create_dir_Single(t, self, path, env) ==
    LET build_path == Push(self.root, path)
        m          == MkDir(t, build_path, env)
    IN [ok |-> m.err = "ok", fs |-> m.fs,
        self |-> IF m.err = "ok"
                 THEN [self EXCEPT !.dirs = Append(@, build_path)]
                 ELSE self]

\* TestDir::create_dir moving root to the directory it has made.
create_dir_Chroot(t, self, path, env) ==
    LET build_path == Push(self.root, path)
        result     == create_dir_all(t, build_path, env)
    IN [ok |-> result.ok, fs |-> result.fs,
        self |-> IF result.ok
                 THEN [self EXCEPT !.root = build_path, !.dirs = Append(@, build_path)]
                 ELSE self]

\* TestDir::create_dir
create_dir(t, self, path, env) ==
    LET build_path == Push(self.root, path)
        result     == create_dir_all(t, build_path, env)
    IN [ok |-> result.ok, fs |-> result.fs,
        self |-> IF result.ok
                 THEN [self EXCEPT !.dirs = Append(@, build_path)]
                 ELSE self]

\* TestDir::create_file recording a path only when files does not hold it yet.
create_file_Dedup(t, self, path, filetype, rnd, env) ==
    LET build_path == Push(self.root, path)
        file       == IF path.segs = <<>>
                      THEN [ok |-> FALSE, fs |-> t, at |-> <<>>]
                      ELSE File_create(t, build_path, env)
        w          == CASE filetype.tag = "ZeroFile" -> WriteZeros(NewBufWriter, filetype.size, env)
                        [] filetype.tag = "RandomFile" -> BufWriter_write(NewBufWriter, rnd, env)
                        [] OTHER -> NewBufWriter
        written    == Put(file.fs, file.at, FileEntry(BufWriter_drop(w, env)))
    IN IF ~file.ok THEN [res |-> "panic", fs |-> t, self |-> self]
       ELSE IF ~w.ok THEN [res |-> "err", fs |-> written, self |-> self]
       ELSE [res |-> "ok", fs |-> written,
             self |-> IF \E i \in 1..Len(self.files) : self.files[i] = build_path
                      THEN self
                      ELSE [self EXCEPT !.files = Append(@, build_path)]]

\* TestDir::create_file; res is "ok", "err" (the Err that create unwraps) or
\* "panic" (File::create failed). With the empty path push leaves root with
\* a trailing separator, a name under which open creates no file.
create_file(t, self, path, filetype, rnd, env) ==
    LET build_path == Push(self.root, path)
        file       == IF path.segs = <<>>
                      THEN [ok |-> FALSE, fs |-> t, at |-> <<>>]
                      ELSE File_create(t, build_path, env)
        w          == CASE filetype.tag = "ZeroFile" -> WriteZeros(NewBufWriter, filetype.size, env)
                        [] filetype.tag = "RandomFile" -> BufWriter_write(NewBufWriter, rnd, env)
                        [] OTHER -> NewBufWriter
        written    == Put(file.fs, file.at, FileEntry(BufWriter_drop(w, env)))
    IN IF ~file.ok THEN [res |-> "panic", fs |-> t, self |-> self]
       ELSE IF ~w.ok THEN [res |-> "err", fs |-> written, self |-> self]
       ELSE [res |-> "ok", fs |-> written,
             self |-> [self EXCEPT !.files = Append(@, build_path)]]

\* TestDir::remove_file without the branch for directories.
remove_file_FilesOnly(t, self, path, env) ==
    LET build_path == Push(self.root, path) IN
    IF exists(t, build_path) /\ is_file(t, build_path)
    THEN fs_remove_file(t, build_path, env)
    ELSE [ok |-> TRUE, fs |-> t]

\* TestDir::remove_file
remove_file(t, self, path, env) ==
    LET build_path == Push(self.root, path) IN
    IF exists(t, build_path)
    THEN IF is_dir(t, build_path) THEN remove_dir_all(t, build_path, env)
         ELSE IF is_file(t, build_path) THEN fs_remove_file(t, build_path, env)
         ELSE [ok |-> TRUE, fs |-> t]
    ELSE [ok |-> TRUE, fs |-> t]

\* DirBuilder::create for TestDir without the create_dir of the parent
\* before create_file.
TestDir_create_NoParent(t, self, path, filetype, rnd, env) ==
    IF is_absolute(path) THEN [res |-> "panic", fs |-> t, self |-> self]
    ELSE IF filetype = FDir
    THEN LET d == create_dir(t, self, path, env) IN
         [res |-> IF d.ok THEN "ok" ELSE "panic", fs |-> d.fs, self |-> d.self]
    ELSE LET c == create_file(t, self, path, filetype, rnd, env) IN
         [res |-> IF c.res = "ok" THEN "ok" ELSE "panic", fs |-> c.fs, self |-> c.self]

\* DirBuilder::create for TestDir calling fs::create_dir_all for the parent
\* in place of create_dir, which records it in dirs.
TestDir_create_ParentUnrecorded(t, self, path, filetype, rnd, env) ==
    IF is_absolute(path) THEN [res |-> "panic", fs |-> t, self |-> self]
    ELSE IF filetype = FDir
    THEN LET d == create_dir(t, self, path, env) IN
         [res |-> IF d.ok THEN "ok" ELSE "panic", fs |-> d.fs, self |-> d.self]
    ELSE LET d == IF HasParent(path)
                  THEN create_dir_all(t, Push(self.root, Parent(path)), env)
                  ELSE [ok |-> TRUE, fs |-> t]
             c == create_file(d.fs, self, path, filetype, rnd, env)
         IN IF ~d.ok THEN [res |-> "panic", fs |-> d.fs, self |-> self]
            ELSE [res |-> IF c.res = "ok" THEN "ok" ELSE "panic", fs |-> c.fs, self |-> c.self]

\* DirBuilder::create without the check of is_absolute.
TestDir_create_NoAbsCheck(t, self, path, filetype, rnd, env) ==
    IF filetype = FDir
    THEN LET d == create_dir(t, self, path, env) IN
         [res |-> IF d.ok THEN "ok" ELSE "panic", fs |-> d.fs, self |-> d.self]
    ELSE LET d == IF HasParent(path)
                  THEN create_dir(t, self, Parent(path), env)
                  ELSE [ok |-> TRUE, fs |-> t, self |-> self]
             c == create_file(d.fs, d.self, path, filetype, rnd, env)
         IN IF ~d.ok THEN [res |-> "panic", fs |-> d.fs, self |-> d.self]
            ELSE [res |-> IF c.res = "ok" THEN "ok" ELSE "panic", fs |-> c.fs, self |-> c.self]

\* DirBuilder::create for TestDir; res is "ok" or "panic".
TestDir_create(t, self, path, filetype, rnd, env) ==
    IF is_absolute(path) THEN [res |-> "panic", fs |-> t, self |-> self]
    ELSE IF filetype = FDir
    THEN LET d == create_dir(t, self, path, env) IN
         [res |-> IF d.ok THEN "ok" ELSE "panic", fs |-> d.fs, self |-> d.self]
    ELSE LET d == IF HasParent(path)
                  THEN create_dir(t, self, Parent(path), env)
                  ELSE [ok |-> TRUE, fs |-> t, self |-> self]
             c == create_file(d.fs, d.self, path, filetype, rnd, env)
         IN IF ~d.ok THEN [res |-> "panic", fs |-> d.fs, self |-> d.self]
            ELSE [res |-> IF c.res = "ok" THEN "ok" ELSE "panic", fs |-> c.fs, self |-> c.self]

\* DirBuilder::remove taking the removed path out of files and dirs.
TestDir_remove_Forgetting(t, self, path, env) ==
    IF is_absolute(path) THEN [res |-> "panic", fs |-> t, self |-> self]
    ELSE LET remove   == remove_file(t, self, path, env)
             Kept(q)  == q # Push(self.root, path)
         IN [res |-> IF remove.ok THEN "ok" ELSE "panic", fs |-> remove.fs,
             self |-> [self EXCEPT !.files = SelectSeq(@, Kept), !.dirs = SelectSeq(@, Kept)]]

\* DirBuilder::remove for TestDir
TestDir_remove(t, self, path, env) ==
    IF is_absolute(path) THEN [res |-> "panic", fs |-> t, self |-> self]
    ELSE LET remove == remove_file(t, self, path, env) IN
         [res |-> IF remove.ok THEN "ok" ELSE "panic", fs |-> remove.fs, self |-> self]

\* DirBuilder::path returning its argument without the root in front.
TestDir_path_Unrooted(self, path) == path

\* DirBuilder::path for TestDir
TestDir_path(self, path) == Push(self.root, path)

\* DirBuilder::root for TestDir
TestDir_root(self) == self.root

\* TestDir::get_files, TestDir::get_dirs
get_files(self) == self.files

get_dirs(self) == self.dirs

\* --------------------------------------------------------------------- state

Fixtures == {1, 2}

VARIABLES
    fs,        \* the file system tree
    status,    \* per fixture: "init", "creating", "live", "panicked", "failed", "down"
    tempdir,   \* per fixture: the TempDir {path, delete}
    testdir,   \* per fixture: the TestDir {root, files, dirs}
    pre,       \* per fixture: the tree as it was when construction began
    nops,      \* per fixture: calls made on the fixture
    last,      \* the last call: what was called, with what, and how it ended
    ret        \* what the last call of path, root, get_files or get_dirs returned

vars == <<fs, status, tempdir, testdir, pre, nops, last, ret>>

Tree(dirs, files) ==
    [x \in dirs \cup files |-> IF x \in dirs THEN DirEntry ELSE FileEntry(<<ZeroByte>>)]

BaseDirs == {<<>>, TempDirPath.segs, CwdPath.segs}

\* The trees a run may start from: nothing but the base directories, a
\* directory a under the current directory, a/b under it too, or a file a.
InitTrees ==
    { Tree(BaseDirs, {}),
      Tree(BaseDirs \cup {<<"cwd", "a">>}, {}),
      Tree(BaseDirs \cup {<<"cwd", "a">>, <<"cwd", "a", "b">>}, {}),
      Tree(BaseDirs, {<<"cwd", "a">>}) }

\* A returned PathBuf or a returned &Vec<PathBuf>.
NoRet == [path |-> NoPath, list |-> <<>>]

Call(op, f, path, ft, env, res) ==
    [op |-> op, f |-> f, path |-> path, ft |-> ft, env |-> env, res |-> res]

Init ==
    /\ fs \in InitTrees
    /\ status = [f \in Fixtures |-> "init"]
    /\ tempdir = [f \in Fixtures |-> NoTempDir]
    /\ testdir = [f \in Fixtures |-> NoTestDir]
    /\ pre = [f \in Fixtures |-> Tree({<<>>}, {})]
    /\ nops = [f \in Fixtures |-> 0]
    /\ last = Call("none", 0, NoPath, FDir, EnvOk, "ok")
    /\ ret = NoRet

\* ------------------------------------------------------------- construction

\* The body shared by TestDir::temp, current_rnd and current: TempDir::create
\* on the target, then TestDir::new, or the panic of the constructor.
Construct(f, op, arg, base_ok, target, env) ==
    LET r == TempDir_create(fs, target, env) IN
    /\ status[f] = "init"
    /\ pre' = [pre EXCEPT ![f] = fs]
    /\ IF base_ok /\ r.ok
       THEN /\ fs' = r.fs
            /\ status' = [status EXCEPT ![f] = "live"]
            /\ tempdir' = [tempdir EXCEPT ![f] = r.tempdir]
            /\ testdir' = [testdir EXCEPT ![f] = TestDir_new(r.tempdir)]
            /\ last' = Call(op, f, arg, FDir, env, "ok")
       ELSE /\ fs' = IF base_ok THEN r.fs ELSE fs
            /\ status' = [status EXCEPT ![f] = "failed"]
            /\ UNCHANGED <<tempdir, testdir>>
            /\ last' = Call(op, f, arg, FDir, env, "panic")
    /\ UNCHANGED <<nops, ret>>

\* TestDir::temp with the name random_name() drew
Temp(f, name, env) ==
    Construct(f, "temp", Rel(<<name>>), TRUE, Push(TempDirPath, Rel(<<name>>)), env)

\* TestDir::current_rnd; current_dir() fails when the directory is gone
CurrentRnd(f, name, env) ==
    Construct(f, "current_rnd", Rel(<<name>>), is_dir(fs, CwdPath),
              Push(CwdPath, Rel(<<name>>)), env)

\* TestDir::current
Current(f, path, env) ==
    Construct(f, "current", path, is_dir(fs, CwdPath), Push(CwdPath, path), env)

\* ---------------------------------------------------------------- operations

\* DirBuilder::create
Create(f, path, filetype, rnd, env) ==
    LET r == TestDir_create(fs, testdir[f], path, filetype, rnd, env) IN
    /\ status[f] = "live"
    /\ nops[f] < MaxOps
    /\ fs' = r.fs
    /\ testdir' = [testdir EXCEPT ![f] = r.self]
    /\ status' = [status EXCEPT ![f] = IF r.res = "ok" THEN "live" ELSE "panicked"]
    /\ nops' = [nops EXCEPT ![f] = @ + 1]
    /\ last' = Call("create", f, path, filetype, env, r.res)
    /\ UNCHANGED <<tempdir, pre, ret>>

\* DirBuilder::remove
Remove(f, path, env) ==
    LET r == TestDir_remove(fs, testdir[f], path, env) IN
    /\ status[f] = "live"
    /\ nops[f] < MaxOps
    /\ fs' = r.fs
    /\ testdir' = [testdir EXCEPT ![f] = r.self]
    /\ status' = [status EXCEPT ![f] = IF r.res = "ok" THEN "live" ELSE "panicked"]
    /\ nops' = [nops EXCEPT ![f] = @ + 1]
    /\ last' = Call("remove", f, path, FDir, env, r.res)
    /\ UNCHANGED <<tempdir, pre, ret>>

\* Drop for TempDir unwrapping the result of remove_dir_all in place of
\* discarding it.
Drop_Unwrap(f, env) ==
    LET r == remove_dir_all(fs, tempdir[f].delete, env) IN
    /\ status[f] \in {"live", "panicked"}
    /\ fs' = r.fs
    /\ status' = [status EXCEPT ![f] = IF r.ok THEN "down" ELSE "failed"]
    /\ last' = Call("drop", f, tempdir[f].delete, FDir, env, IF r.ok THEN "ok" ELSE "panic")
    /\ UNCHANGED <<tempdir, testdir, pre, nops, ret>>

\* Drop for TempDir, at the end of the owning scope or while a panic of
\* create/remove unwinds: the result of remove_dir_all is discarded.
Drop(f, env) ==
    LET r == remove_dir_all(fs, tempdir[f].delete, env) IN
    /\ status[f] \in {"live", "panicked"}
    /\ fs' = r.fs
    /\ status' = [status EXCEPT ![f] = "down"]
    /\ last' = Call("drop", f, tempdir[f].delete, FDir, env, IF r.ok THEN "ok" ELSE "err")
    /\ UNCHANGED <<tempdir, testdir, pre, nops, ret>>

\* A call that reads the fixture and returns a value: nothing but the
\* record of the call changes.
Read(f, op, path, value) ==
    /\ status[f] = "live"
    /\ nops[f] < MaxOps
    /\ nops' = [nops EXCEPT ![f] = @ + 1]
    /\ last' = Call(op, f, path, FDir, EnvOk, "ok")
    /\ ret' = value
    /\ UNCHANGED <<fs, status, tempdir, testdir, pre>>

\* DirBuilder::path
PathOf(f, path) ==
    Read(f, "path", path, [path |-> TestDir_path(testdir[f], path), list |-> <<>>])

\* DirBuilder::root
RootOf(f) ==
    Read(f, "root", NoPath, [path |-> TestDir_root(testdir[f]), list |-> <<>>])

\* TestDir::get_files
GetFiles(f) ==
    Read(f, "get_files", NoPath, [path |-> NoPath, list |-> get_files(testdir[f])])

\* TestDir::get_dirs
GetDirs(f) ==
    Read(f, "get_dirs", NoPath, [path |-> NoPath, list |-> get_dirs(testdir[f])])

\* ------------------------------------------------------------ specifications

\* Paths given to TestDir::current.
CtorPaths == {Rel(<<"a">>), Rel(<<"a", "b">>), Rel(<<"a", "..", "b">>)}

\* Paths given to create and remove.
OpPaths == {Abs(<<"a">>), Rel(<<>>), Rel(<<"a">>), Rel(<<"a", "b">>), Rel(<<"..">>)}

\* What is only ever a success or a refusal of every change.
RoEnvs == {EnvOk, EnvRo}

\* How the remove_dir_all of a teardown may end: done, refused, or failed
\* part-way.
DropEnvs == {EnvOk, EnvRo, EnvKeep}

\* File types of the calls in Spec; SpecFile below goes through the contents.
SmallTypes == {FDir, [tag |-> "EmptyFile", size |-> 0], [tag |-> "ZeroFile", size |-> 1]}

\* One fixture used by one thread, every call running to its end.
Next ==
    \/ \E name \in Names, env \in RoEnvs : Temp(1, name, env)
    \/ \E name \in Names, env \in RoEnvs : CurrentRnd(1, name, env)
    \/ \E path \in CtorPaths, env \in RoEnvs : Current(1, path, env)
    \/ \E path \in OpPaths, ft \in SmallTypes, env \in RoEnvs : Create(1, path, ft, <<>>, env)
    \/ \E path \in OpPaths, env \in RoEnvs : Remove(1, path, env)
    \/ \E env \in DropEnvs : Drop(1, env)

Spec == Init /\ [][Next]_vars

\* One fixture in the temp directory and the files created in it, over every
\* content, every draw of the random bytes and every outcome of the writes.
FilePaths == {Rel(<<"a">>), Rel(<<"a", "b">>)}

InitFile == Init /\ fs = Tree(BaseDirs, {})

NextFile ==
    \/ \E name \in Names : Temp(1, name, EnvOk)
    \/ \E path \in FilePaths, ft \in FileTypes, env \in Envs :
          \E rnd \in Draws(ft) : Create(1, path, ft, rnd, env)
    \/ Drop(1, EnvOk)

SpecFile == InitFile /\ [][NextFile]_vars

\* Two fixtures used by two threads.  TempDir::create is two steps here, the
\* loop that finds the deletion path and then create_dir_all, and the steps
\* of the two fixtures interleave.
Begin(f, path) ==
    LET target == Push(CwdPath, path) IN
    /\ status[f] = "init"
    /\ pre' = [pre EXCEPT ![f] = fs]
    /\ IF is_dir(fs, CwdPath)
       THEN /\ status' = [status EXCEPT ![f] = "creating"]
            /\ tempdir' = [tempdir EXCEPT ![f] = [path |-> target, delete |-> Boundary(fs, target)]]
            /\ last' = Call("current", f, path, FDir, EnvOk, "begun")
       ELSE /\ status' = [status EXCEPT ![f] = "failed"]
            /\ UNCHANGED tempdir
            /\ last' = Call("current", f, path, FDir, EnvOk, "panic")
    /\ UNCHANGED <<fs, testdir, nops, ret>>

Finish(f, env) ==
    LET r == create_dir_all(fs, tempdir[f].path, env) IN
    /\ status[f] = "creating"
    /\ fs' = r.fs
    /\ IF r.ok
       THEN /\ status' = [status EXCEPT ![f] = "live"]
            /\ testdir' = [testdir EXCEPT ![f] = TestDir_new(tempdir[f])]
            /\ UNCHANGED tempdir
            /\ last' = Call("current", f, tempdir[f].path, FDir, env, "ok")
       ELSE /\ status' = [status EXCEPT ![f] = "failed"]
            /\ tempdir' = [tempdir EXCEPT ![f] = NoTempDir]
            /\ UNCHANGED testdir
            /\ last' = Call("current", f, tempdir[f].path, FDir, env, "panic")
    /\ UNCHANGED <<pre, nops, ret>>

ConcPaths == {Rel(<<"a", "a">>), Rel(<<"a", "b">>), Rel(<<"b">>)}

InitConc == Init /\ fs \in {Tree(BaseDirs, {}), Tree(BaseDirs \cup {<<"cwd", "a">>}, {})}

NextConc ==
    \/ \E f \in Fixtures, path \in ConcPaths : Begin(f, path)
    \/ \E f \in Fixtures, env \in RoEnvs : Finish(f, env)
    \/ \E f \in Fixtures, ft \in SmallTypes : Create(f, Rel(<<"a">>), ft, <<>>, EnvOk)
    \/ \E f \in Fixtures : Remove(f, Rel(<<"a">>), EnvOk)
    \/ \E f \in Fixtures : Drop(f, EnvOk)

SpecConc == InitConc /\ [][NextConc]_vars

\* One new fixture in use: paths three components deep, and the calls that
\* only read the fixture between the calls that change it.
UsePaths == {Rel(<<"a">>), Rel(<<"a", "b">>), Rel(<<"a", "b", "a">>)}

InitUse == Init /\ fs = Tree(BaseDirs, {})

NextUse ==
    \/ \E name \in Names : Temp(1, name, EnvOk)
    \/ Current(1, Rel(<<"a", "b">>), EnvOk)
    \/ \E path \in UsePaths, ft \in SmallTypes, env \in RoEnvs : Create(1, path, ft, <<>>, env)
    \/ \E path \in UsePaths : Remove(1, path, EnvOk)
    \/ \E path \in UsePaths : PathOf(1, path)
    \/ RootOf(1)
    \/ GetFiles(1)
    \/ GetDirs(1)
    \/ \E env \in DropEnvs : Drop(1, env)

SpecUse == InitUse /\ [][NextUse]_vars

\* ------------------------------------------------------------------- claims

\* The step is the teardown of fixture f.
TornDown(f) == status[f] # "down" /\ status'[f] = "down"

\* The step is a call of create or remove on fixture f.
Called(f) == nops'[f] = nops[f] + 1 /\ last'.op \in {"create", "remove"}

Constructors == {"temp", "current_rnd", "current"}

Dirs(t) == {c \in DOMAIN t : t[c].kind = "dir"}

\* The first k components of a path.
Upto(p, k) == MkPath(p.abs, SubSeq(p.segs, 1, k))

\* C1: teardown deletes no directory that existed before the fixture was
\* constructed: a directory of the tree as it was before construction that is
\* there when the fixture is dropped is there after the drop.
C1_TeardownKeepsExisting ==
    [][\A f \in Fixtures :
          TornDown(f) => \A c \in Dirs(pre[f]) \cap Dirs(fs) : c \in Dirs(fs')]_vars

C3_BoundaryIsNew ==
    \A f \in Fixtures :
        status[f] \in {"live", "panicked", "down"} =>
            LET d == tempdir[f].delete
                r == tempdir[f].path
            IN /\ starts_with(r, d)
               /\ HasParent(d) => exists(pre[f], Parent(d))
               /\ \A k \in Len(d.segs)..Len(r.segs) : ~exists(pre[f], Upto(r, k))

\* C5: while a fixture is live its root is a directory.
C5_LiveRootIsDir ==
    \A f \in Fixtures : status[f] = "live" => is_dir(fs, testdir[f].root)

\* C6: a constructor either returns a fixture whose root is a directory under
\* the temp directory (temp) or the current directory (current_rnd, current)
\* and whose files and dirs are empty, or it panics and returns no fixture.
C6_ConstructedOrPanicked ==
    last.op \in Constructors =>
        LET f == last.f IN
        IF last.res = "ok"
        THEN /\ status[f] = "live"
             /\ is_dir(fs, testdir[f].root)
             /\ testdir[f].root = tempdir[f].path
             /\ starts_with(testdir[f].root, IF last.op = "temp" THEN TempDirPath ELSE CwdPath)
             /\ testdir[f].files = <<>> /\ testdir[f].dirs = <<>>
        ELSE /\ status[f] = "failed"
             /\ tempdir[f] = NoTempDir /\ testdir[f] = NoTestDir

\* C6 happens: current("a/b") has returned a fixture.
C6_Witness ==
    /\ last.op = "current" /\ last.res = "ok"
    /\ last.path = Rel(<<"a", "b">>)
    /\ status[1] = "live"

C10_CreateDir ==
    [][\A f \in Fixtures :
          (Called(f) /\ last'.op = "create" /\ last'.ft = FDir /\ ~is_absolute(last'.path)) =>
              LET p    == last'.path
                  root == testdir[f].root
              IN /\ is_dir(fs, Push(root, p)) => (last'.res = "ok" /\ fs' = fs)
                 /\ last'.res = "ok" =>
                       /\ \A k \in 0..Len(p.segs) : is_dir(fs', Push(root, Upto(p, k)))
                       /\ \A c \in DOMAIN fs : c \in DOMAIN fs' /\ fs'[c] = fs[c]
                       /\ \A c \in (DOMAIN fs') \ (DOMAIN fs) : fs'[c] = DirEntry
                       /\ testdir'[f].dirs = Append(testdir[f].dirs, Push(root, p))
                       /\ testdir'[f].files = testdir[f].files]_vars

\* C10 happens: a/b was created as a directory twice, the second call finding
\* it there.
C10_Witness ==
    /\ last.op = "create" /\ last.ft = FDir /\ last.res = "ok"
    /\ last.path = Rel(<<"a", "b">>)
    /\ Len(testdir[1].dirs) = 2
    /\ testdir[1].dirs[1] = testdir[1].dirs[2]
    /\ is_dir(fs, Push(testdir[1].root, Rel(<<"a", "b">>)))

\* The roots of two fixtures do not overlap: neither is an ancestor of, or
\* equal to, the other.
Apart(f, g) ==
    /\ ~starts_with(testdir[f].root, testdir[g].root)
    /\ ~starts_with(testdir[g].root, testdir[f].root)

\* C4: of two fixtures whose roots do not overlap, the teardown of one
\* deletes neither the root of the other nor anything under it while the
\* other is live.
C4_TeardownSparesOthers ==
    [][\A f, g \in Fixtures :
          (f # g /\ TornDown(f) /\ status[g] = "live" /\ Apart(f, g)) =>
              LET r == Resolve(fs, testdir[g].root) IN
              r.st = "ok" => \A c \in Under(fs, r.path) : c \in DOMAIN fs']_vars

\* The file that a call of create has left at root/p.
Created(f, p) == Resolve(fs, Push(testdir[f].root, p))

FileSpecs == {"EmptyFile", "ZeroFile", "RandomFile"}

\* C8: a failure of the file system during create is fatal: when the file
\* cannot be opened or not every byte can be written the call panics, and
\* ZeroFile(n) and RandomFile(n) never return leaving fewer than n bytes.
C8_FailureIsFatal ==
    (last.op = "create" /\ last.ft.tag \in FileSpecs /\ ~is_absolute(last.path)) =>
        /\ (last.env.ro \/ last.env.quota < last.ft.size) => last.res = "panic"
        /\ last.res = "ok" =>
              /\ is_file(fs, Push(testdir[last.f].root, last.path))
              /\ Len(fs[Created(last.f, last.path).path].data) >= last.ft.size

\* C9: create(p, spec) that returns has left a file at root/p whose content
\* is what spec says and nothing else: no byte for EmptyFile, n bytes '0' for
\* ZeroFile(n), n bytes for RandomFile(n).
C9_FileContent ==
    (last.op = "create" /\ last.ft.tag \in FileSpecs /\ last.res = "ok") =>
        /\ is_file(fs, Push(testdir[last.f].root, last.path))
        /\ LET data == fs[Created(last.f, last.path).path].data IN
           CASE last.ft.tag = "EmptyFile" -> data = <<>>
             [] last.ft.tag = "ZeroFile" -> data = [i \in 1..last.ft.size |-> ZeroByte]
             [] last.ft.tag = "RandomFile" -> Len(data) = last.ft.size

\* The directories between root and root/p, root/p excluded.
Intermediate(f, p) == {Push(testdir[f].root, Upto(p, k)) : k \in 1..(Len(p.segs) - 1)}

\* C11: create of a file on a path whose intermediate directories do not
\* exist creates each of them and then the file: as the first call on a new
\* fixture it succeeds and leaves under root exactly those directories and
\* the file (for a single component: the file alone), and whenever it
\* succeeds the intermediate directories are directories and root/p is a file.
C11_CreatesIntermediates ==
    (last.op = "create" /\ last.ft.tag \in FileSpecs) =>
        LET f    == last.f
            root == testdir[f].root
            p    == last.path
            made == Intermediate(f, p) \cup {root, Push(root, p)}
        IN /\ (nops[f] = 1 /\ last.env = EnvOk) => last.res = "ok"
           /\ last.res = "ok" =>
                  /\ \A d \in Intermediate(f, p) : is_dir(fs, d)
                  /\ is_file(fs, Push(root, p))
           /\ (nops[f] = 1 /\ last.res = "ok") =>
                  Under(fs, Resolve(fs, root).path) = {Resolve(fs, q).path : q \in made}

C11_Witness ==
    /\ last.op = "create" /\ last.ft.tag \in FileSpecs /\ last.res = "ok"
    /\ last.path = Rel(<<"a", "b", "a">>)
    /\ nops[last.f] = 1
    /\ \A d \in Intermediate(last.f, last.path) : ~exists(pre[last.f], d)

\* The elements of a sequence.
Range(q) == {q[i] : i \in 1..Len(q)}

\* C12: remove(p) of a file deletes that file and nothing else, remove(p) of
\* a directory deletes it and all under it, and remove(p) of a path that does
\* not exist returns with the file system as it was; when the file system
\* accepts changes the call returns, afterwards root/p does not exist, and
\* every entry that is not at or under root/p is left as it was.
C12_Remove ==
    [][\A f \in Fixtures :
          (Called(f) /\ last'.op = "remove" /\ ~is_absolute(last'.path)) =>
              LET target == Push(testdir[f].root, last'.path)
                  r      == Resolve(fs, target)
                  gone   == IF r.st = "ok" THEN Under(fs, r.path) ELSE {}
              IN /\ ~exists(fs, target) => (last'.res = "ok" /\ fs' = fs)
                 /\ last'.env = EnvOk => last'.res = "ok"
                 /\ (exists(fs, target) /\ last'.res = "ok") =>
                        /\ ~exists(fs', target)
                        /\ is_file(fs, target) => DOMAIN fs' = DOMAIN fs \ {r.path}
                        /\ is_dir(fs, target) => DOMAIN fs' = DOMAIN fs \ gone
                 /\ \A c \in DOMAIN fs \ gone : c \in DOMAIN fs' /\ fs'[c] = fs[c]
                 /\ DOMAIN fs' \subseteq DOMAIN fs]_vars

C12_Witness ==
    /\ last.op = "remove" /\ last.res = "ok" /\ last.path = Rel(<<"a">>)
    /\ Push(testdir[last.f].root, Rel(<<"a", "b">>)) \in Range(testdir[last.f].dirs)
    /\ ~exists(fs, Push(testdir[last.f].root, Rel(<<"a">>)))
    /\ is_dir(fs, testdir[last.f].root)

\* C13: files and dirs are append-only and in call order: no step of a live
\* fixture drops or reorders an entry, a create(p, file type) that returns
\* puts root/p at the end of files, a create(p, Dir) that returns puts root/p
\* at the end of dirs, also when the path is there already, and get_files and
\* get_dirs return the two lists as they are.
C13_HistoryAppendOnly ==
    [][\A f \in Fixtures :
          status[f] = "live" =>
              LET was   == testdir[f]
                  now   == testdir'[f]
                  built == Push(was.root, last'.path)
                  made  == nops'[f] = nops[f] + 1 /\ last'.op = "create" /\ last'.res = "ok"
              IN /\ IsPrefix(was.files, now.files)
                 /\ IsPrefix(was.dirs, now.dirs)
                 /\ (made /\ last'.ft.tag \in FileSpecs) => now.files = Append(was.files, built)
                 /\ (made /\ last'.ft = FDir) => now.dirs = Append(was.dirs, built)
                 /\ (nops'[f] = nops[f] + 1 /\ last'.op = "get_files") => ret'.list = was.files
                 /\ (nops'[f] = nops[f] + 1 /\ last'.op = "get_dirs") => ret'.list = was.dirs]_vars

C13_Witness ==
    /\ last.op = "create" /\ last.res = "ok" /\ last.ft.tag \in FileSpecs
    /\ Len(testdir[last.f].files) = 2
    /\ testdir[last.f].files[1] = testdir[last.f].files[2]
    /\ testdir[last.f].files[2] = Push(testdir[last.f].root, last.path)

\* The step is a call on fixture f of the reading method op.
Reads(f, op) == nops'[f] = nops[f] + 1 /\ last'.op = op

\* C14: path(p) changes nothing: the file system, root, files and dirs are
\* after the call what they were before it, and it returns the components of
\* root followed by those of p, whether root/p exists or not.
C14_PathIsPure ==
    [][\A f \in Fixtures :
          Reads(f, "path") =>
              /\ fs' = fs
              /\ testdir' = testdir
              /\ tempdir' = tempdir
              /\ status' = status
              /\ ret'.path.abs = testdir[f].root.abs
              /\ ret'.path.segs = testdir[f].root.segs \o last'.path.segs]_vars

C14_Witness ==
    /\ last.op = "path" /\ last.path = Rel(<<"a", "b">>)
    /\ ret.path = Push(testdir[last.f].root, last.path)
    /\ ~exists(fs, ret.path)
    /\ is_file(fs, Push(testdir[last.f].root, Rel(<<"a">>)))

\* C15: teardown never fails visibly and runs once: whether remove_dir_all
\* succeeds, is refused, or fails part-way, the drop of a fixture ends with
\* the fixture torn down and without a panic, the error is seen by nobody,
\* and nothing is deleted for a fixture that is torn down already.
C15_TeardownSwallowsErrors ==
    [][\A f \in Fixtures :
          /\ (status[f] \in {"live", "panicked"} /\ last'.op = "drop" /\ last'.f = f) =>
                 /\ status'[f] = "down"
                 /\ last'.res \in {"ok", "err"}
                 /\ last'.path = tempdir[f].delete
                 /\ testdir' = testdir /\ tempdir' = tempdir
          /\ status[f] = "down" => (status'[f] = "down" /\ fs' = fs)]_vars

C15_Witness ==
    /\ last.op = "drop" /\ last.res = "err" /\ last.env = EnvKeep
    /\ status[last.f] = "down"
    /\ is_dir(fs, tempdir[last.f].delete)
    /\ \E i \in 1..Len(testdir[last.f].files) : ~exists(fs, testdir[last.f].files[i])

\* The entries that a step creates, deletes or changes.
Touched == {c \in DOMAIN fs \cup DOMAIN fs' : c \notin DOMAIN fs \/ c \notin DOMAIN fs' \/ fs[c] # fs'[c]}

\* C16: containment: every entry that a create or remove with a relative
\* path (the empty path and paths with ".." included) creates, changes or
\* deletes lies strictly under root; nothing at root, above root or outside
\* root is touched.
C16_Containment ==
    [][\A f \in Fixtures :
          (Called(f) /\ ~is_absolute(last'.path)) =>
              LET r == Resolve(fs, testdir[f].root) IN
              \A c \in Touched : r.st = "ok" /\ IsPrefix(r.path, c) /\ c # r.path]_vars

Constructed(f) == status[f] \in {"live", "panicked", "down"}

\* C17: the TempDir is not changed after construction: through every create,
\* remove, path, root, get_files and get_dirs its path and delete stay what
\* construction made them (delete being the boundary found in the tree as it
\* was then), root of the TestDir stays equal to the path of the TempDir, and
\* the drop deletes that boundary whatever was created or removed meanwhile.
C17_TempDirImmutable ==
    [][\A f \in Fixtures :
          Constructed(f) =>
              /\ tempdir'[f] = tempdir[f]
              /\ tempdir[f].delete = Boundary(pre[f], tempdir[f].path)
              /\ testdir[f].root = tempdir[f].path
              /\ testdir'[f].root = tempdir[f].path
              /\ TornDown(f) =>
                     /\ last'.path = tempdir[f].delete
                     /\ last'.res = "ok" => ~exists(fs', tempdir[f].delete)]_vars

C17_Witness ==
    /\ last.op = "drop" /\ last.res = "ok"
    /\ tempdir[last.f].delete # tempdir[last.f].path
    /\ last.path = Boundary(pre[last.f], testdir[last.f].root)
    /\ Len(testdir[last.f].dirs) > 0
    /\ nops[last.f] > 1
    /\ ~exists(fs, tempdir[last.f].delete)

\* C18: remove leaves the history alone: whatever the path and whatever the
\* state of the fixture, files and dirs are after remove(p) what they were
\* before it, so they may list paths that are no longer there.
C18_RemoveKeepsHistory ==
    [][\A f \in Fixtures :
          (nops'[f] = nops[f] + 1 /\ last'.op = "remove") =>
              /\ testdir'[f].files = testdir[f].files
              /\ testdir'[f].dirs = testdir[f].dirs]_vars

C18_Witness ==
    /\ last.op = "remove" /\ last.res = "ok" /\ status[last.f] = "live"
    /\ Push(testdir[last.f].root, last.path) \in Range(testdir[last.f].files)
    /\ ~exists(fs, Push(testdir[last.f].root, last.path))

\* The step is a call of create on fixture f that returns.
Made(f) == Called(f) /\ last'.op = "create" /\ last'.res = "ok"

\* C19: a create(p, file type) that returns appends root/p to files and,
\* before that, the directory root/p lies in to dirs: root itself when p is
\* a single component; with the empty path a file create appends nothing to
\* dirs, however it ends; a create(p, Dir) that returns appends root/p to
\* dirs and leaves files as it was.
C19_HistoryOfCreate ==
    [][\A f \in Fixtures :
          LET was  == testdir[f]
              now  == testdir'[f]
              p    == last'.path
              at   == MkPath(was.root.abs, was.root.segs \o p.segs)
              in   == MkPath(was.root.abs, was.root.segs \o Front(p.segs))
          IN /\ (Made(f) /\ last'.ft.tag \in FileSpecs) =>
                    /\ now.files = Append(was.files, at)
                    /\ Len(p.segs) > 1 => now.dirs = Append(was.dirs, in)
                    /\ Len(p.segs) = 1 => now.dirs = Append(was.dirs, was.root)
             /\ (Called(f) /\ last'.op = "create" /\ last'.ft.tag \in FileSpecs /\ p = Rel(<<>>)) =>
                    now.dirs = was.dirs
             /\ (Made(f) /\ last'.ft = FDir) =>
                    /\ now.dirs = Append(was.dirs, at)
                    /\ now.files = was.files]_vars

C19_Witness ==
    /\ last.op = "create" /\ last.res = "ok" /\ last.ft.tag \in FileSpecs
    /\ last.path = Rel(<<"a">>)
    /\ testdir[last.f].dirs = <<testdir[last.f].root>>
    /\ testdir[last.f].files = <<Push(testdir[last.f].root, Rel(<<"a">>))>>
====
